---- MODULE Spec2Model ----
(***************************************************************************)
(* Bridge telemetry client of the rosbridge visualizations.                *)
(*                                                                         *)
(* One visualization object is modelled per behaviour: the laser-scan      *)
(* visualization with navigation controls (LaserScanVisualization) or the  *)
(* camera visualization (CameraVisualization).  Both own one rosbridge     *)
(* connection (this.ros), a status field (this.connectionStatus) and the   *)
(* browser timers they start with setTimeout.  The transport (ROSLIB.Ros   *)
(* over a WebSocket) and the operator are the environment: they emit the   *)
(* connection / error / close events, deliver messages and press buttons.  *)
(*                                                                         *)
(* Time is counted in milliseconds and advances in steps of TickMs.  All   *)
(* timers of the program have the same delay, so they fire in the order    *)
(* in which they were started: the timer queue is a sequence.              *)
(***************************************************************************)
EXTENDS Integers, Sequences, FiniteSets, TLC

\* ---- bounds of the model ------------------------------------------------
MaxAttempts == 3
TickMs == 1000
MaxFrames == 2
ElapsedCap == 4000
MaxStatusList == 2
MaxReadings == 2
MaxPoses == 2
MaxPixels == 2
MaxLoading == 2
MaxCallMs == 2
MaxInFlight == 2

\* ---- program constants --------------------------------------------------
ReconnectDelay == 3000
ProbeTimeout == 3000
FpsWindow == 1000
SecondMs == 1000
NsPerMs == 1000000
maxTrajectoryPoints == 100

RosIds == 1..MaxAttempts
NoRos == 0

\* topic names
ScanTopic == "/world"
PathTopic == "/move_base/NavfnROS/plan"
StatusTopic == "/move_base/status"
GoalTopic == "/move_base_simple/goal"
CancelTopic == "/move_base/cancel"
CameraTopic == "/camera/color/image_raw"
CompressedTopic == "/camera/color/image_raw/compressed"

NoTopic == [name |-> "", ros |-> NoRos]
NewTopic(n, r) == [name |-> n, ros |-> r]

NoGoal == [x |-> 0, y |-> 0, held |-> FALSE]
GoalPositions == {[x |-> 1, y |-> 2, held |-> TRUE], [x |-> 2, y |-> 1, held |-> TRUE]}

NoMessage == [topic |-> "", x |-> 0, y |-> 0, id |-> "", ros |-> NoRos]

\* status codes: the ten of actionlib and one unmapped integer
StatusCodes == 0..10
\* message.status_list: empty, or at most MaxStatusList entries; the entries
\* before the last one have a code that keeps the goal (1, ACTIVE) or one that
\* clears it (3, SUCCEEDED)
StatusLists ==
    {<<>>} \cup
    UNION {{e \o <<c>> : e \in [1..n -> {1, 3}], c \in StatusCodes} :
              n \in 0..(MaxStatusList - 1)}

\* ---- numbers as JavaScript has them --------------------------------------------
\* a finite number num/den in lowest terms with den > 0, NaN, or an infinity
\* (sign in num)
J(n) == [kind |-> "num", num |-> n, den |-> 1]
NaN == [kind |-> "nan", num |-> 0, den |-> 1]

\* this.scanData of the constructor
NoScan == [ranges |-> <<>>, angle_min |-> 0, angle_increment |-> 0,
           range_min |-> J(0), range_max |-> J(0)]
\* this.pathLine of createPathLine: hidden, geometry without attributes
NoPath == [visible |-> FALSE, position |-> <<>>]
\* the canvas element of init(): the default size of a canvas, nothing drawn
NoCanvas == [width |-> 300, height |-> 150, data |-> <<>>]
\* no message handled yet
NoFrame == [kind |-> "none"]
\* no goal message published yet: no stamp, no call of publishNavigationGoal
NoStamp == [secs |-> 0, nsecs |-> 0]
NoCall == [from |-> 0, to |-> 0]
\* this.telemetry of the constructor of DroneVisualization (altitudes are
\* counted in twentieths of a unit, angles in degrees)
InitialTelemetry == [altitude |-> 0, pitch |-> 0, roll |-> 0, yaw |-> 0]
\* this.drone of createDrone: a group at the origin, not rotated
InitialDrone == [position |-> [x |-> 0, y |-> 0, z |-> 0],
                 rotation |-> [x |-> 0, y |-> 0, z |-> 0]]

VARIABLES
    viz,               \* which class the object is: "laser" or "camera"
    ros,               \* this.ros: id of the current ROSLIB.Ros object
    transport,         \* state of the transport of every Ros object created
    connectionStatus,  \* this.connectionStatus
    statusMessage,     \* this.statusBar.textContent (the kind of message)
    timers,            \* pending setTimeout timers, in the order started
    subs,              \* ROSLIB.Topic objects with a subscribed callback
    laserScanTopic, goalPublisher, cancelPublisher,
    pathSubscriber, statusSubscriber,
    navigationStatus, goalPosition, goalMarkerVisible, navControlsShown,
    published,         \* the last message handed to a publisher
    cameraSubscriber,
    receivedMessage,   \* the receivedMessage flag of each probe closure
    frameCount,
    elapsed,           \* Date.now() - this.lastFrameTime, capped
    signals,           \* the messages the last handler passed to updateStatus
    unsubscribed,      \* the Topic objects the last handler sent an unsubscribe for
    outcome,           \* how the last call ended: "ok", or "logged" (console.error/warn and return)
    statusList,        \* message.status_list of the status message handled last
    scanData,          \* this.scanData
    positions,         \* the position attribute of this.laserPoints.geometry
    colors,            \* the color attribute of this.laserPoints.geometry
    pathLine,          \* this.pathLine: its visible flag and position attribute
    canvas,            \* this.canvas: width, height and the RGBA bytes drawn
    loading,           \* the Image objects whose src is set and that have not loaded yet
    received,          \* the scan, path or camera message handled last
    stamp,             \* header.stamp of the goal message published last
    clockShown,        \* history: Date.now() at entry to and at return from the last
                       \*          publishNavigationGoal that published
    telemetry,         \* this.telemetry of DroneVisualization
    drone,             \* this.drone: position and rotation (in quarter turns)
    trajectoryPoints,  \* this.trajectoryPoints
    inflight,          \* the fetches not yet settled, oldest first; TRUE marks
                       \* a fetch issued before one whose response was applied
    late,              \* history: the response handled last was marked
    shifted,           \* history: the last updateTrajectory evicted a point
    opens,             \* history: Ros objects that emitted 'connection'
    fallbacks,         \* history: compressed-to-raw switches per Ros object
    tornDown,          \* history: disconnect() has been called
    lastEvent          \* history: the handler that ran last

connVars == <<ros, transport, connectionStatus, statusMessage, timers, subs>>
laserVars == <<laserScanTopic, goalPublisher, cancelPublisher, pathSubscriber,
               statusSubscriber, navigationStatus, goalPosition,
               goalMarkerVisible, navControlsShown, published>>
cameraVars == <<cameraSubscriber, receivedMessage, frameCount, elapsed>>
outVars == <<signals, unsubscribed, outcome, statusList>>
viewVars == <<scanData, positions, colors, pathLine, canvas, loading, received>>
stampVars == <<stamp, clockShown>>
droneVars == <<telemetry, drone, trajectoryPoints, inflight, late, shifted>>
vars == <<viz, connVars, laserVars, cameraVars, opens, fallbacks, tornDown,
          lastEvent, outVars, viewVars,
          stampVars, droneVars>>


\* ---- timers ---------------------------------------------------------------
Timer(k, r, d) == [kind |-> k, ros |-> r, remaining |-> d]

\* clearTimeout of the timers of kind k started for Ros object r
RECURSIVE Without(_, _, _)
Without(q, k, r) ==
    IF q = <<>> THEN <<>>
    ELSE IF Head(q).kind = k /\ Head(q).ros = r THEN Without(Tail(q), k, r)
    ELSE <<Head(q)>> \o Without(Tail(q), k, r)

Pending(k, r) == {i \in 1..Len(timers) : timers[i].kind = k /\ timers[i].ros = r}
PendingKind(k) == {i \in 1..Len(timers) : timers[i].kind = k}
Due(k) == timers # <<>> /\ Head(timers).kind = k /\ Head(timers).remaining = 0

\* ---- status bar ------------------------------------------------------------
\* the text of a status message: its kind and the status name it carries
Msg(kind, name) == [kind |-> kind, name |-> name]
Call(status, message) == [status |-> status, message |-> message]

\* a handler calls updateStatus with each of calls, in order
updateStatusAll(calls) ==
    /\ signals' = [i \in 1..Len(calls) |-> calls[i].message]
    /\ IF calls = <<>>
       THEN UNCHANGED <<connectionStatus, statusMessage>>
       ELSE /\ connectionStatus' = calls[Len(calls)].status
            /\ statusMessage' = calls[Len(calls)].message

updateStatus(status, message) == updateStatusAll(<<Call(status, message)>>)

\* a handler that does not call updateStatus
noStatus == updateStatusAll(<<>>)

\* a handler that sends no unsubscribe, logs no error and handles no status list
quiet ==
    /\ unsubscribed' = {}
    /\ outcome' = "ok"
    /\ statusList' = <<>>

\* Topic.unsubscribe(): the unsubscribe operation is sent only for a Topic
\* object whose callback is subscribed
Unsubscribed_Always(t) == {t}
Unsubscribed(t) == IF t \in subs THEN {t} ELSE {}

\* ---- connectToROS ----------------------------------------------------------
\* new ROSLIB.Ros: a fresh transport that starts connecting
NewRos == ros + 1

connectToROS ==
    /\ updateStatus("connecting", Msg("Connecting", ""))
    /\ ros' = NewRos
    /\ transport' = [transport EXCEPT ![NewRos] = "connecting"]

\* the timers the close handler starts
CloseTimers_Backoff(r) == <<Timer("reconnect", r, ReconnectDelay * r)>>
CloseTimers_Twice(r) == <<Timer("reconnect", r, ReconnectDelay), Timer("reconnect", r, ReconnectDelay)>>
CloseTimers(r) == <<Timer("reconnect", r, ReconnectDelay)>>

\* status set by the error handler
ErrorStatus_Kept == connectionStatus
ErrorStatus == "disconnected"

\* ---- subscriptions made by the connection handlers ------------------------
subscribeLaserScan_Once == IF laserScanTopic = NoTopic THEN NewTopic(ScanTopic, ros) ELSE laserScanTopic
subscribeLaserScan == NewTopic(ScanTopic, ros)
setupGoalPublisher == NewTopic(GoalTopic, ros)
setupCancelPublisher == NewTopic(CancelTopic, ros)
subscribePath == NewTopic(PathTopic, ros)
subscribeNavigationStatus == NewTopic(StatusTopic, ros)

\* subscribeCompressedImage: the Topic object and the probe timer it starts
subscribeCompressedImage ==
    /\ cameraSubscriber' = NewTopic(CompressedTopic, ros)
    /\ subs' = subs \cup {NewTopic(CompressedTopic, ros)}
    /\ receivedMessage' = [receivedMessage EXCEPT ![ros] = FALSE]
    /\ timers' = Append(timers, Timer("probe", ros, ProbeTimeout))

Init ==
    /\ viz \in {"laser", "camera"}
    /\ ros = 1
    /\ transport = [r \in RosIds |-> IF r = 1 THEN "connecting" ELSE "none"]
    /\ connectionStatus = "connecting"
    /\ statusMessage = Msg("Connecting", "")
    /\ timers = <<>>
    /\ subs = {}
    /\ laserScanTopic = NoTopic
    /\ goalPublisher = NoTopic
    /\ cancelPublisher = NoTopic
    /\ pathSubscriber = NoTopic
    /\ statusSubscriber = NoTopic
    /\ navigationStatus = "IDLE"
    /\ goalPosition = NoGoal
    /\ goalMarkerVisible = FALSE
    /\ navControlsShown = FALSE
    /\ published = NoMessage
    /\ cameraSubscriber = NoTopic
    /\ receivedMessage = [r \in RosIds |-> FALSE]
    /\ frameCount = 0
    /\ elapsed = 0
    /\ opens = {}
    /\ fallbacks = [r \in RosIds |-> 0]
    /\ tornDown = FALSE
    /\ lastEvent = "connect"
    /\ signals = <<Msg("Connecting", "")>>
    /\ unsubscribed = {}
    /\ outcome = "ok"
    /\ statusList = <<>>
    /\ scanData = NoScan
    /\ positions = <<>>
    /\ colors = <<>>
    /\ pathLine = NoPath
    /\ canvas = NoCanvas
    /\ loading = <<>>
    /\ received = NoFrame
    /\ stamp = NoStamp
    /\ clockShown = NoCall
    /\ telemetry = InitialTelemetry
    /\ drone = InitialDrone
    /\ trajectoryPoints = <<>>
    /\ inflight = <<>>
    /\ late = FALSE
    /\ shifted = FALSE

\* ---- transport events -------------------------------------------------------
\* ros.on('connection') of the laser-scan visualization
LaserOnConnection ==
    /\ viz = "laser"
    /\ \E r \in RosIds :
        /\ transport[r] = "connecting"
        /\ transport' = [transport EXCEPT ![r] = "open"]
        /\ opens' = opens \cup {r}
    /\ updateStatus("connected", Msg("Connected", ""))
    /\ laserScanTopic' = subscribeLaserScan
    /\ goalPublisher' = setupGoalPublisher
    /\ cancelPublisher' = setupCancelPublisher
    /\ pathSubscriber' = subscribePath
    /\ statusSubscriber' = subscribeNavigationStatus
    /\ subs' = subs \cup {laserScanTopic', pathSubscriber', statusSubscriber'}
    /\ lastEvent' = "connection"
    /\ quiet
    /\ UNCHANGED <<viewVars, viz, stampVars, droneVars, ros, timers, navigationStatus, goalPosition,
                   goalMarkerVisible, navControlsShown, published,
                   cameraVars, fallbacks, tornDown>>

\* ros.on('connection') of the camera visualization
CameraOnConnection ==
    /\ viz = "camera"
    /\ \E r \in RosIds :
        /\ transport[r] = "connecting"
        /\ transport' = [transport EXCEPT ![r] = "open"]
        /\ opens' = opens \cup {r}
    /\ updateStatus("connected", Msg("Connected", ""))
    /\ subscribeCompressedImage
    /\ lastEvent' = "connection"
    /\ quiet
    /\ UNCHANGED <<viewVars, viz, stampVars, droneVars, ros, laserVars, frameCount, elapsed, fallbacks, tornDown>>

\* ros.on('error'): the transport failed; a close event may or may not follow
OnError ==
    /\ \E r \in RosIds :
        /\ transport[r] \in {"connecting", "open"}
        /\ transport' = [transport EXCEPT ![r] = "failed"]
    /\ updateStatus(ErrorStatus, Msg("ConnectionError", ""))
    /\ lastEvent' = "error"
    /\ quiet
    /\ UNCHANGED <<viewVars, viz, stampVars, droneVars, ros, timers, subs, laserVars, cameraVars,
                   opens, fallbacks, tornDown>>

\* ros.on('close')
OnClose ==
    /\ \E r \in RosIds :
        /\ transport[r] \in {"connecting", "open", "closing", "failed"}
        /\ transport' = [transport EXCEPT ![r] = "closed"]
        /\ timers' = timers \o CloseTimers(r)
    /\ updateStatus("disconnected", Msg("Disconnected", ""))
    /\ lastEvent' = "close"
    /\ quiet
    /\ UNCHANGED <<viewVars, viz, stampVars, droneVars, ros, subs, laserVars, cameraVars,
                   opens, fallbacks, tornDown>>

\* the reconnect timer fires: () => this.connectToROS()
ReconnectTimerFire_ResetNav ==
    /\ Due("reconnect")
    /\ ros < MaxAttempts
    /\ timers' = Tail(timers)
    /\ connectToROS
    /\ lastEvent' = "reconnect"
    /\ quiet
    /\ navigationStatus' = "IDLE"
    /\ goalPosition' = NoGoal
    /\ goalMarkerVisible' = FALSE
    /\ UNCHANGED <<viewVars, viz, stampVars, droneVars, subs, laserScanTopic, goalPublisher, cancelPublisher,
                   pathSubscriber, statusSubscriber, navControlsShown, published,
                   cameraVars, opens, fallbacks, tornDown>>

ReconnectTimerFire ==
    /\ Due("reconnect")
    /\ ros < MaxAttempts
    /\ timers' = Tail(timers)
    /\ connectToROS
    /\ lastEvent' = "reconnect"
    /\ quiet
    /\ UNCHANGED <<viewVars, viz, stampVars, droneVars, subs, laserVars, cameraVars, opens, fallbacks, tornDown>>

\* time passes, unless a timer is due
Tick ==
    /\ \A i \in 1..Len(timers) : timers[i].remaining > 0
    /\ timers' = [i \in 1..Len(timers) |->
                    [timers[i] EXCEPT !.remaining = IF @ > TickMs THEN @ - TickMs ELSE 0]]
    /\ elapsed' = IF viz = "camera" THEN (IF elapsed + TickMs < ElapsedCap THEN elapsed + TickMs ELSE ElapsedCap) ELSE elapsed
    /\ lastEvent' = "tick"
    /\ noStatus
    /\ quiet
    /\ UNCHANGED <<viewVars, viz, stampVars, droneVars, ros, transport, subs,
                   laserVars, cameraSubscriber, receivedMessage, frameCount,
                   opens, fallbacks, tornDown>>

\* ---- disconnect() -------------------------------------------------------------

\* the Topic object disconnect() unsubscribes
StreamTopic == IF viz = "laser" THEN laserScanTopic ELSE cameraSubscriber

Disconnect ==
    /\ subs' = subs \ {StreamTopic}
    /\ unsubscribed' = IF StreamTopic # NoTopic THEN Unsubscribed(StreamTopic) ELSE {}
    \* ros.close(): an opening or open transport starts closing
    /\ transport' = IF transport[ros] \in {"connecting", "open"}
                    THEN [transport EXCEPT ![ros] = "closing"]
                    ELSE transport
    /\ tornDown' = TRUE
    /\ lastEvent' = "disconnect"
    /\ noStatus
    /\ outcome' = "ok"
    /\ statusList' = <<>>
    /\ UNCHANGED <<viewVars, viz, stampVars, droneVars, ros, timers,
                   laserVars, cameraVars, opens, fallbacks>>

\* ---- camera stream ------------------------------------------------------------
\* a message of topic n can reach the handler of a Topic object subscribed on
\* an open transport
Handlers(n) == {s \in subs : s.name = n /\ transport[s.ros] = "open"}

\* updateFPS: [status, message, frameCount, elapsed]
updateFPS ==
    IF elapsed >= FpsWindow
    THEN /\ updateStatus("connected", Msg("FPS", ""))
         /\ frameCount' = 0
         /\ elapsed' = 0
    ELSE /\ frameCount' = frameCount + 1
         /\ noStatus
         /\ UNCHANGED elapsed

\* timers left after the compressed-image callback ran for the probe of r
CompressedCallbackTimers_NoClear(r) == timers
CompressedCallbackTimers(r) == Without(timers, "probe", r)

\* ---- camera frames ---------------------------------------------------------------
\* base64 text as character codes: 0..63 the alphabet, Pad the '=' sign,
\* BadChar a character outside the alphabet
Pad == 64
BadChar == 65

ByteAt(bytes, j) == IF j < Len(bytes) THEN bytes[j + 1] ELSE 0

\* the base64 text rosbridge sends for a byte array
Btoa(bytes) ==
    [k \in 1..(4 * ((Len(bytes) + 2) \div 3)) |->
        LET g == (k - 1) \div 4
            c == (k - 1) % 4
            b0 == ByteAt(bytes, 3 * g)
            b1 == ByteAt(bytes, 3 * g + 1)
            b2 == ByteAt(bytes, 3 * g + 2)
        IN  CASE c = 0 -> b0 \div 4
              [] c = 1 -> (b0 % 4) * 16 + b1 \div 16
              [] c = 2 -> IF 3 * g + 1 < Len(bytes) THEN (b1 % 16) * 4 + b2 \div 64 ELSE Pad
              [] OTHER -> IF 3 * g + 2 < Len(bytes) THEN b2 % 64 ELSE Pad]

\* atob: the text without its padding, whether it is well formed, its bytes
Unpadded(chars) ==
    IF Len(chars) % 4 = 0 /\ Len(chars) >= 2 /\ chars[Len(chars)] = Pad
    THEN (IF chars[Len(chars) - 1] = Pad
          THEN SubSeq(chars, 1, Len(chars) - 2)
          ELSE SubSeq(chars, 1, Len(chars) - 1))
    ELSE chars

AtobThrows(chars) ==
    \/ Len(Unpadded(chars)) % 4 = 1
    \/ \E k \in 1..Len(Unpadded(chars)) : Unpadded(chars)[k] > 63

Atob(chars) ==
    [j \in 1..((Len(Unpadded(chars)) * 6) \div 8) |->
        LET g == (j - 1) \div 3
            r == (j - 1) % 3
            s0 == ByteAt(Unpadded(chars), 4 * g)
            s1 == ByteAt(Unpadded(chars), 4 * g + 1)
            s2 == ByteAt(Unpadded(chars), 4 * g + 2)
            s3 == ByteAt(Unpadded(chars), 4 * g + 3)
        IN  CASE r = 0 -> s0 * 4 + s1 \div 16
              [] r = 1 -> (s1 % 16) * 16 + s2 \div 4
              [] OTHER -> (s2 % 4) * 64 + s3]

\* message.data of a raw image: absent, a base64 string, or a byte array
NoData == [form |-> "none", body |-> <<>>]
StringData(chars) == [form |-> "string", body |-> chars]
ArrayData(bytes) == [form |-> "array", body |-> bytes]

\* the logical pixel colors of the images sent, and the bytes of a pixel
\* sequence in each encoding
PixelColors == {[r |-> 1, g |-> 2, b |-> 3, a |-> 255], [r |-> 4, g |-> 5, b |-> 6, a |-> 7]}
PixelBytes(encoding, px) ==
    CASE encoding = "rgb8" -> <<px.r, px.g, px.b>>
      [] encoding = "bgr8" -> <<px.b, px.g, px.r>>
      [] encoding = "rgba8" -> <<px.r, px.g, px.b, px.a>>
      [] encoding = "bgra8" -> <<px.b, px.g, px.r, px.a>>
      [] OTHER -> <<px.r>>

RECURSIVE Payload(_, _)
Payload(encoding, pixels) ==
    IF pixels = <<>> THEN <<>>
    ELSE PixelBytes(encoding, Head(pixels)) \o Payload(encoding, Tail(pixels))

Encodings == {"rgb8", "bgr8", "rgba8", "bgra8", "mono8", "yuv422"}
Sizes == {[width |-> 1, height |-> 1], [width |-> 2, height |-> 1]}
PixelSeqs == UNION {[1..n -> PixelColors] : n \in 0..MaxPixels}

RawFrame(size, encoding, data) ==
    [kind |-> "raw", width |-> size.width, height |-> size.height,
     encoding |-> encoding, data |-> data]

\* message.data in its other forms: absent, a byte array, a malformed text
OtherData(encoding, form) ==
    CASE form = "none" -> NoData
      [] form = "array" ->
           ArrayData(Payload(encoding, <<CHOOSE c \in PixelColors : c.a = 255>>))
      [] OTHER ->
           StringData(<<BadChar>> \o
                      Btoa(Payload(encoding, <<CHOOSE c \in PixelColors : c.a = 255>>)))

\* the raw image messages: every pixel sequence as base64 text, and for each
\* encoding and size a byte array, a malformed text and a message without data
RawFrames ==
    {RawFrame(sz, e, StringData(Btoa(Payload(e, px)))) :
        sz \in Sizes, e \in Encodings, px \in PixelSeqs}
    \cup
    {RawFrame(sz, e, OtherData(e, f)) :
        sz \in Sizes, e \in Encodings, f \in {"none", "array", "malformed"}}

\* the frames of the connection model: messages without image data
EmptyRawFrames == {RawFrame(sz, "rgb8", NoData) : sz \in {[width |-> 1, height |-> 1]}}

\* handleRawImage: data missing or empty
HasNoData(frame) == frame.data.form = "none" \/ Len(frame.data.body) = 0

\* the byte array the handler converts
FrameBytes_Raw(frame) == frame.data.body
FrameBytes(frame) ==
    IF frame.data.form = "string" THEN Atob(frame.data.body) ELSE frame.data.body

Supported(encoding) ==
    encoding \in {"rgb8", "bgr8", "rgba8", "bgra8", "mono8", "grayscale"}

\* the byte of a pixel that the conversion writes to output channel c
Channel_NoSwap(encoding, c) == c
Channel(encoding, c) ==
    CASE encoding = "bgr8" -> 2 - c
      [] encoding = "bgra8" -> IF c = 3 THEN 3 ELSE 2 - c
      [] OTHER -> c

\* imageData.data after the conversion loop: createImageData gives zeros, the
\* loop runs over the bytes received, a read past the end of the bytes stores 0
\* and a write past the end of the image data is ignored
RawImageData(encoding, bytes, width, height) ==
    [k \in 1..(width * height * 4) |->
        LET p == (k - 1) \div 4
            c == (k - 1) % 4
        IN  CASE encoding \in {"rgb8", "bgr8"} ->
                   IF 3 * p < Len(bytes)
                   THEN (IF c = 3 THEN 255 ELSE ByteAt(bytes, 3 * p + Channel(encoding, c)))
                   ELSE 0
              [] encoding = "rgba8" -> ByteAt(bytes, k - 1)
              [] encoding = "bgra8" ->
                   IF 4 * p < Len(bytes)
                   THEN ByteAt(bytes, 4 * p + Channel(encoding, c))
                   ELSE 0
              [] OTHER ->
                   IF p < Len(bytes)
                   THEN (IF c = 3 THEN 255 ELSE ByteAt(bytes, p))
                   ELSE 0]

\* assigning canvas.width and canvas.height: a canvas of that size, cleared
Resized(width, height) ==
    IF canvas.width # width \/ canvas.height # height
    THEN [width |-> width, height |-> height, data |-> <<>>]
    ELSE canvas

\* how handleRawImage ends: "logged" (console.error or console.warn and
\* return), "thrown" (atob throws), or "ok" (putImageData)
RawOutcome(frame) ==
    IF HasNoData(frame) THEN "logged"
    ELSE IF frame.data.form = "string" /\ AtobThrows(frame.data.body) THEN "thrown"
    ELSE IF ~Supported(frame.encoding) THEN "logged"
    ELSE "ok"

\* handleRawImage after updateFPS
handleRawImage(frame) ==
    /\ outcome' = RawOutcome(frame)
    /\ canvas' =
          IF HasNoData(frame) THEN canvas
          ELSE IF RawOutcome(frame) # "ok" THEN Resized(frame.width, frame.height)
          ELSE [width |-> frame.width, height |-> frame.height,
                data |-> RawImageData(frame.encoding, FrameBytes(frame),
                                      frame.width, frame.height)]

\* the images a compressed message can hold: decodable pictures and a corrupt
\* container
Picture(size, pixels) ==
    [width |-> size.width, height |-> size.height, corrupt |-> FALSE,
     data |-> RawImageData("rgba8", Payload("rgba8", pixels), size.width, size.height)]
CorruptPicture == [width |-> 0, height |-> 0, corrupt |-> TRUE, data |-> <<>>]
Pictures ==
    {Picture([width |-> 1, height |-> 1], <<c>>) : c \in PixelColors}
    \cup {Picture([width |-> 2, height |-> 1], <<c, c>>) : c \in PixelColors}
    \cup {CorruptPicture}

CompressedFrame(hasData, picture) ==
    [kind |-> "compressed", hasData |-> hasData, picture |-> picture]
CompressedFrames ==
    {CompressedFrame(TRUE, pic) : pic \in Pictures}
    \cup {CompressedFrame(FALSE, CorruptPicture)}
EmptyCompressedFrames == {CompressedFrame(FALSE, CorruptPicture)}

\* handleCompressedImage after updateFPS: img.src = imageData starts the load
handleCompressedImage(frame) ==
    /\ outcome' = IF frame.hasData THEN "ok" ELSE "logged"
    /\ loading' = IF frame.hasData THEN Append(loading, frame.picture) ELSE loading
    /\ UNCHANGED canvas

\* the callback of subscribeCompressedImage
OnCompressedImage(frames) ==
    /\ viz = "camera"
    /\ frameCount < MaxFrames
    /\ Len(loading) < MaxLoading
    /\ \E s \in Handlers(CompressedTopic) :
        /\ receivedMessage' = [receivedMessage EXCEPT ![s.ros] = TRUE]
        /\ timers' = CompressedCallbackTimers(s.ros)
    /\ updateFPS
    /\ \E frame \in frames :
        /\ received' = frame
        /\ handleCompressedImage(frame)
    /\ lastEvent' = "compressedImage"
    /\ unsubscribed' = {}
    /\ statusList' = <<>>
    /\ UNCHANGED <<viz, stampVars, droneVars, ros, transport, subs, laserVars, cameraSubscriber,
                   opens, fallbacks, tornDown, scanData, positions, colors, pathLine>>

\* the sequence q without its i-th element
Remove(q, i) == SubSeq(q, 1, i - 1) \o SubSeq(q, i + 1, Len(q))

\* the Image objects whose load can complete next
NextLoaded == 1..Len(loading)

\* img.onload of an Image that decoded
ImageOnLoad ==
    /\ \E i \in NextLoaded :
        /\ i <= Len(loading)
        /\ ~loading[i].corrupt
        /\ canvas' = [width |-> loading[i].width, height |-> loading[i].height,
                      data |-> loading[i].data]
        /\ loading' = Remove(loading, i)
    /\ lastEvent' = "imageLoad"
    /\ noStatus
    /\ quiet
    /\ UNCHANGED <<viz, stampVars, droneVars, ros, transport, timers, subs, laserVars, cameraVars,
                   opens, fallbacks, tornDown, scanData, positions, colors,
                   pathLine, received>>

\* img.onerror of an Image that did not decode
ImageOnError ==
    /\ \E i \in NextLoaded :
        /\ i <= Len(loading)
        /\ loading[i].corrupt
        /\ loading' = Remove(loading, i)
    /\ lastEvent' = "imageError"
    /\ noStatus
    /\ unsubscribed' = {}
    /\ outcome' = "logged"
    /\ statusList' = <<>>
    /\ UNCHANGED <<viz, stampVars, droneVars, ros, transport, timers, subs, laserVars, cameraVars,
                   opens, fallbacks, tornDown, scanData, positions, colors,
                   pathLine, canvas, received>>

\* the callback of subscribeRawImage
OnRawImage(frames) ==
    /\ viz = "camera"
    /\ frameCount < MaxFrames
    /\ Handlers(CameraTopic) # {}
    /\ updateFPS
    /\ \E frame \in frames :
        /\ received' = frame
        /\ handleRawImage(frame)
    /\ lastEvent' = "rawImage"
    /\ unsubscribed' = {}
    /\ statusList' = <<>>
    /\ UNCHANGED <<viz, stampVars, droneVars, ros, transport, timers, subs, laserVars,
                   cameraSubscriber, receivedMessage, opens, fallbacks, tornDown,
                   scanData, positions, colors, pathLine, loading>>

\* a camera message arrives on an open transport and no callback is subscribed
DropCameraMessage ==
    /\ viz = "camera"
    /\ \E r \in RosIds :
        /\ transport[r] = "open"
        /\ \/ /\ NewTopic(CompressedTopic, r) \notin subs
              /\ lastEvent' = "droppedCompressed"
           \/ /\ NewTopic(CameraTopic, r) \notin subs
              /\ lastEvent' = "droppedRaw"
    /\ noStatus
    /\ quiet
    /\ UNCHANGED <<viewVars, viz, stampVars, droneVars, ros, transport, timers, subs, laserVars, cameraVars,
                   opens, fallbacks, tornDown>>

\* the subscriptions after the probe gave up on the compressed topic
ProbeFallbackSubs_NoUnsubscribe == subs \cup {NewTopic(CameraTopic, ros)}
ProbeFallbackSubs == (subs \ {cameraSubscriber}) \cup {NewTopic(CameraTopic, ros)}

\* the probe timer of subscribeCompressedImage fires
ProbeTimerFire_Interval ==
    /\ Due("probe")
    /\ timers' = Tail(timers) \o <<Timer("probe", Head(timers).ros, ProbeTimeout)>>
    /\ IF ~receivedMessage[Head(timers).ros]
       THEN /\ updateStatusAll(<<Call("connecting", Msg("TryingRaw", "")),
                               Call("connecting", Msg("WaitingRaw", ""))>>)
            /\ unsubscribed' = Unsubscribed(cameraSubscriber)
            /\ subs' = ProbeFallbackSubs
            /\ cameraSubscriber' = NewTopic(CameraTopic, ros)
            /\ fallbacks' = [fallbacks EXCEPT ![ros] = @ + 1]
       ELSE /\ noStatus
            /\ unsubscribed' = {}
            /\ UNCHANGED <<subs, cameraSubscriber, fallbacks>>
    /\ lastEvent' = "probeTimeout"
    /\ outcome' = "ok"
    /\ statusList' = <<>>
    /\ UNCHANGED <<viewVars, viz, stampVars, droneVars, ros, transport, laserVars, receivedMessage,
                   frameCount, elapsed, opens, tornDown>>

ProbeTimerFire ==
    /\ Due("probe")
    /\ timers' = Tail(timers)
    /\ IF ~receivedMessage[Head(timers).ros]
       THEN /\ updateStatusAll(<<Call("connecting", Msg("TryingRaw", "")),
                               Call("connecting", Msg("WaitingRaw", ""))>>)
            /\ unsubscribed' = Unsubscribed(cameraSubscriber)
            /\ subs' = ProbeFallbackSubs
            /\ cameraSubscriber' = NewTopic(CameraTopic, ros)
            /\ fallbacks' = [fallbacks EXCEPT ![ros] = @ + 1]
       ELSE /\ noStatus
            /\ unsubscribed' = {}
            /\ UNCHANGED <<subs, cameraSubscriber, fallbacks>>
    /\ lastEvent' = "probeTimeout"
    /\ outcome' = "ok"
    /\ statusList' = <<>>
    /\ UNCHANGED <<viewVars, viz, stampVars, droneVars, ros, transport, laserVars, receivedMessage,
                   frameCount, elapsed, opens, tornDown>>

\* ---- navigation goal ------------------------------------------------------------
\* the updateStatus call of clearGoal
clearGoalCalls == <<Call("connected", Msg("Connected", ""))>>

\* clearGoal, run by a handler that has already made the updateStatus calls before
clearGoal_KeepMarker(before) ==
    /\ goalPosition' = NoGoal
    /\ goalMarkerVisible' = goalMarkerVisible
    /\ navControlsShown' = FALSE
    /\ updateStatusAll(before \o clearGoalCalls)
clearGoal(before) ==
    /\ goalPosition' = NoGoal
    /\ goalMarkerVisible' = FALSE
    /\ navControlsShown' = FALSE
    /\ updateStatusAll(before \o clearGoalCalls)

SetGoalPosition ==
    /\ viz = "laser"
    /\ \E p \in GoalPositions : goalPosition' = p
    /\ goalMarkerVisible' = TRUE
    /\ navControlsShown' = TRUE
    /\ updateStatus("connected", Msg("GoalSet", ""))
    /\ lastEvent' = "setGoalPosition"
    /\ quiet
    /\ UNCHANGED <<viewVars, viz, stampVars, droneVars, ros, transport, timers, subs, laserScanTopic,
                   goalPublisher, cancelPublisher, pathSubscriber,
                   statusSubscriber, navigationStatus, published,
                   cameraVars, opens, fallbacks, tornDown>>

\* how a call that finds its precondition missing ends: console.error or
\* console.warn, then a normal return
MissingOutcome == "logged"

\* the two values of Date.now() that publishNavigationGoal reads, first for
\* secs and then for nsecs, with the values at entry and at return
\* around the turn of a second; the clock does not run backwards and the call
\* takes at most MaxCallMs
ClockRuns ==
    {c \in [entry : (SecondMs - MaxCallMs)..(SecondMs + MaxCallMs),
            first : (SecondMs - MaxCallMs)..(SecondMs + MaxCallMs),
            second : (SecondMs - MaxCallMs)..(SecondMs + MaxCallMs),
            return : (SecondMs - MaxCallMs)..(SecondMs + MaxCallMs)] :
        c.entry <= c.first /\ c.first <= c.second /\ c.second <= c.return
        /\ c.return - c.entry <= MaxCallMs}
\* the clock of the connection model: it stands still
FrozenClock == {[entry |-> 0, first |-> 0, second |-> 0, return |-> 0]}

\* header.stamp of goalMessage
Stamp(first, second) ==
    [secs |-> first \div SecondMs, nsecs |-> (second % SecondMs) * NsPerMs]

\* sendGoal and the publishNavigationGoal it calls
SendGoal(readings) ==
    /\ viz = "laser"
    /\ IF goalPosition.held /\ goalPublisher # NoTopic
       THEN /\ published' = [topic |-> goalPublisher.name, x |-> goalPosition.x,
                             y |-> goalPosition.y, id |-> "",
                             ros |-> goalPublisher.ros]
            /\ \E c \in readings :
                  /\ stamp' = Stamp(c.first, c.second)
                  /\ clockShown' = [from |-> c.entry, to |-> c.return]
            /\ updateStatus("connected", Msg("GoalPublished", ""))
            /\ outcome' = "ok"
       ELSE /\ UNCHANGED <<published, stamp, clockShown>>
            /\ noStatus
            /\ outcome' = MissingOutcome
    /\ lastEvent' = "sendGoal"
    /\ unsubscribed' = {}
    /\ statusList' = <<>>
    /\ UNCHANGED <<viewVars, viz, droneVars, ros, transport, timers, subs, laserScanTopic,
                   goalPublisher, cancelPublisher, pathSubscriber,
                   statusSubscriber, navigationStatus, goalPosition,
                   goalMarkerVisible, navControlsShown,
                   cameraVars, opens, fallbacks, tornDown>>

\* the Cancel Goal button: clearGoal(); hideNavigationControls()
ClearGoal ==
    /\ viz = "laser"
    /\ clearGoal(<<>>)
    /\ lastEvent' = "clearGoal"
    /\ quiet
    /\ UNCHANGED <<viewVars, viz, stampVars, droneVars, ros, transport, timers, subs, laserScanTopic,
                   goalPublisher, cancelPublisher, pathSubscriber,
                   statusSubscriber, navigationStatus, published,
                   cameraVars, opens, fallbacks, tornDown>>

\* the GoalID message cancelNavigation publishes
cancelMessage_OfGoal ==
    [topic |-> cancelPublisher.name, x |-> 0, y |-> 0,
     id |-> IF goalPosition.held THEN "goal" ELSE "", ros |-> cancelPublisher.ros]
cancelMessage ==
    [topic |-> cancelPublisher.name, x |-> 0, y |-> 0,
     id |-> "", ros |-> cancelPublisher.ros]

CancelNavigation ==
    /\ viz = "laser"
    /\ IF cancelPublisher # NoTopic
       THEN /\ published' = cancelMessage
            /\ clearGoal(<<Call("connected", Msg("NavigationCanceled", ""))>>)
            /\ outcome' = "ok"
       ELSE /\ UNCHANGED <<published, goalPosition, goalMarkerVisible, navControlsShown>>
            /\ noStatus
            /\ outcome' = MissingOutcome
    /\ lastEvent' = "cancelNavigation"
    /\ unsubscribed' = {}
    /\ statusList' = <<>>
    /\ UNCHANGED <<viewVars, viz, stampVars, droneVars, ros, transport, timers, subs, laserScanTopic,
                   goalPublisher, cancelPublisher, pathSubscriber,
                   statusSubscriber, navigationStatus,
                   cameraVars, opens, fallbacks, tornDown>>

\* ---- navigation status ------------------------------------------------------------
statusMap_NoLost(code) ==
    CASE code = 0 -> "PENDING"
      [] code = 1 -> "ACTIVE"
      [] code = 2 -> "PREEMPTED"
      [] code = 3 -> "SUCCEEDED"
      [] code = 4 -> "ABORTED"
      [] code = 5 -> "REJECTED"
      [] code = 6 -> "PREEMPTING"
      [] code = 7 -> "RECALLING"
      [] code = 8 -> "RECALLED"
      [] OTHER -> "UNKNOWN"

statusMap(code) ==
    CASE code = 0 -> "PENDING"
      [] code = 1 -> "ACTIVE"
      [] code = 2 -> "PREEMPTED"
      [] code = 3 -> "SUCCEEDED"
      [] code = 4 -> "ABORTED"
      [] code = 5 -> "REJECTED"
      [] code = 6 -> "PREEMPTING"
      [] code = 7 -> "RECALLING"
      [] code = 8 -> "RECALLED"
      [] code = 9 -> "LOST"
      [] OTHER -> "UNKNOWN"

\* the cases of the switch that call clearGoal
NavClearsGoal_OnFailure(code) == code \in {3, 4, 5}
NavClearsGoal(code) == code = 3

\* the updateStatus calls the switch makes itself, given whether a goal is held
NavCalls_Always(code, held) ==
    CASE code = 1 -> <<Call("connected", Msg("Navigating", statusMap(code)))>>
      [] code = 3 -> <<Call("connected", Msg("GoalReached", statusMap(code)))>>
      [] code \in {4, 5} -> <<Call("disconnected", Msg("NavigationFailed", statusMap(code)))>>
      [] OTHER -> <<Call("connected", Msg("StatusUpdate", statusMap(code)))>>

NavCalls(code, held) ==
    CASE code = 1 -> <<Call("connected", Msg("Navigating", statusMap(code)))>>
      [] code = 3 -> <<Call("connected", Msg("GoalReached", statusMap(code)))>>
      [] code \in {4, 5} -> <<Call("disconnected", Msg("NavigationFailed", statusMap(code)))>>
      [] OTHER -> IF held
                  THEN <<Call("connected", Msg("StatusUpdate", statusMap(code)))>>
                  ELSE <<>>

handleNavigationStatus(code) ==
    /\ navigationStatus' = statusMap(code)
    /\ IF NavClearsGoal(code)
       THEN clearGoal(NavCalls(code, goalPosition.held))
       ELSE /\ updateStatusAll(NavCalls(code, goalPosition.held))
            /\ UNCHANGED <<goalPosition, goalMarkerVisible, navControlsShown>>

\* the entry of the status list the callback hands to handleNavigationStatus
LatestStatus_First(list) == list[1]
LatestStatus(list) == list[Len(list)]

\* the callback of subscribeNavigationStatus
OnStatusMessage ==
    /\ viz = "laser"
    /\ Handlers(StatusTopic) # {}
    /\ \E list \in StatusLists :
        /\ statusList' = list
        /\ IF Len(list) > 0
           THEN /\ handleNavigationStatus(LatestStatus(list))
                /\ lastEvent' = "statusMessage"
           ELSE /\ UNCHANGED <<navigationStatus, goalPosition, goalMarkerVisible,
                               navControlsShown>>
                /\ noStatus
                /\ lastEvent' = "emptyStatusMessage"
    /\ unsubscribed' = {}
    /\ outcome' = "ok"
    /\ UNCHANGED <<viewVars, viz, stampVars, droneVars, ros, transport, timers, subs, laserScanTopic,
                   goalPublisher, cancelPublisher, pathSubscriber,
                   statusSubscriber, published,
                   cameraVars, opens, fallbacks, tornDown>>

\* ---- arithmetic of JavaScript numbers ------------------------------------------
RECURSIVE Gcd(_, _)
Gcd(a, b) == IF b = 0 THEN a ELSE Gcd(b, a % b)
Abs(n) == IF n < 0 THEN 0 - n ELSE n

\* the number n/d, d # 0, in lowest terms
Frac(n, d) ==
    [kind |-> "num",
     num |-> (IF d < 0 THEN 0 - n ELSE n) \div Gcd(Abs(n), Abs(d)),
     den |-> Abs(d) \div Gcd(Abs(n), Abs(d))]

IsNaN(a) == a.kind = "nan"

\* a < b: false as soon as one side is NaN
Lt(a, b) ==
    /\ ~IsNaN(a)
    /\ ~IsNaN(b)
    /\ CASE a.kind = "num" /\ b.kind = "num" -> a.num * b.den < b.num * a.den
         [] a.kind = "inf" /\ b.kind = "num" -> a.num < 0
         [] a.kind = "num" /\ b.kind = "inf" -> b.num > 0
         [] OTHER -> a.num < b.num

\* a - b of finite numbers or NaN
Minus(a, b) ==
    IF IsNaN(a) \/ IsNaN(b) THEN NaN
    ELSE Frac(a.num * b.den - b.num * a.den, a.den * b.den)

\* a / b of finite numbers or NaN: 0/0 is NaN, x/0 an infinity
Div(a, b) ==
    IF IsNaN(a) \/ IsNaN(b) THEN NaN
    ELSE IF b.num = 0
         THEN (IF a.num = 0 THEN NaN ELSE [kind |-> "inf", num |-> IF a.num < 0 THEN 0 - 1 ELSE 1, den |-> 1])
         ELSE Frac(a.num * b.den, a.den * b.num)

\* a * c for an integer c
Times(a, c) == IF IsNaN(a) THEN NaN ELSE Frac(a.num * c, a.den)

\* Math.cos and Math.sin of an angle given in quarter turns
Cos(q) == CASE q % 4 = 0 -> 1 [] q % 4 = 2 -> 0 - 1 [] OTHER -> 0
Sin(q) == CASE q % 4 = 1 -> 1 [] q % 4 = 3 -> 0 - 1 [] OTHER -> 0

\* ---- laser scan ----------------------------------------------------------------
\* the scan messages: at most MaxReadings readings, angles in quarter turns
ScanFrames ==
    {[ranges |-> r, angle_min |-> a, angle_increment |-> 1,
      range_min |-> J(lim[1]), range_max |-> J(lim[2])] :
        r \in UNION {[1..n -> {J(1), J(2), NaN}] : n \in 0..MaxReadings},
        a \in {0, 1}, lim \in {<<1, 1>>, <<1, 2>>, <<2, 2>>}}

\* updateLaserScan: the readings the loop skips
Skipped_NoNaN(scan, range) ==
    Lt(range, scan.range_min) \/ Lt(scan.range_max, range)
Skipped_Inclusive(scan, range) ==
    IsNaN(range) \/ ~Lt(scan.range_min, range) \/ ~Lt(range, scan.range_max)
Skipped(scan, range) ==
    IsNaN(range) \/ Lt(range, scan.range_min) \/ Lt(scan.range_max, range)

\* the angle of reading i (counted from 0) and its Cartesian point
Angle_Packed(scan, i) ==
    scan.angle_min
      + Cardinality({j \in 1..i : ~Skipped(scan, scan.ranges[j])}) * scan.angle_increment
Angle(scan, i) == scan.angle_min + i * scan.angle_increment
Point(scan, i) ==
    <<Times(scan.ranges[i + 1], Cos(Angle(scan, i))),
      Times(scan.ranges[i + 1], Sin(Angle(scan, i))),
      J(0)>>

normalizedRange(scan, range) ==
    Div(Minus(range, scan.range_min), Minus(scan.range_max, scan.range_min))
Color(scan, i) == <<J(1), normalizedRange(scan, scan.ranges[i + 1]), J(0)>>

\* the arrays the loop has pushed from reading i on
RECURSIVE ScanPositions(_, _)
ScanPositions(scan, i) ==
    IF i >= Len(scan.ranges) THEN <<>>
    ELSE (IF Skipped(scan, scan.ranges[i + 1]) THEN <<>> ELSE Point(scan, i))
         \o ScanPositions(scan, i + 1)

RECURSIVE ScanColors_All(_, _)
ScanColors_All(scan, i) ==
    IF i >= Len(scan.ranges) THEN <<>>
    ELSE Color(scan, i) \o ScanColors_All(scan, i + 1)

RECURSIVE ScanColors(_, _)
ScanColors(scan, i) ==
    IF i >= Len(scan.ranges) THEN <<>>
    ELSE (IF Skipped(scan, scan.ranges[i + 1]) THEN <<>> ELSE Color(scan, i))
         \o ScanColors(scan, i + 1)

\* const positions = []: the array the loop starts from
ScanStart_Kept(old) == old
ScanStart(old) == <<>>

updateLaserScan ==
    /\ positions' = ScanStart(positions) \o ScanPositions(scanData', 0)
    /\ colors' = ScanStart(colors) \o ScanColors(scanData', 0)

\* the callback of subscribeLaserScan
OnScan ==
    /\ viz = "laser"
    /\ Handlers(ScanTopic) # {}
    /\ \E m \in ScanFrames :
        /\ received' = [kind |-> "scan", scan |-> m]
        /\ scanData' = m
    /\ updateLaserScan
    /\ lastEvent' = "scan"
    /\ noStatus
    /\ quiet
    /\ UNCHANGED <<viz, stampVars, droneVars, ros, transport, timers, subs, laserVars, cameraVars,
                   opens, fallbacks, tornDown, pathLine, canvas, loading>>

\* ---- planned path --------------------------------------------------------------
\* message.poses: at most MaxPoses poses
PathMessages ==
    UNION {[1..n -> {[x |-> 0, y |-> 1], [x |-> 1, y |-> 0]}] : n \in 0..MaxPoses}

\* the position array updatePath builds from the poses
RECURSIVE PathPositions(_)
PathPositions(poses) ==
    IF poses = <<>> THEN <<>>
    ELSE <<J(Head(poses).x), J(Head(poses).y), Frac(1, 10)>>
         \o PathPositions(Tail(poses))

updatePath(poses) ==
    IF Len(poses) = 0
    THEN pathLine' = [pathLine EXCEPT !.visible = FALSE]
    ELSE pathLine' = [visible |-> TRUE, position |-> PathPositions(poses)]

\* the callback of subscribePath
OnPath ==
    /\ viz = "laser"
    /\ Handlers(PathTopic) # {}
    /\ \E poses \in PathMessages :
        /\ received' = [kind |-> "path", poses |-> poses]
        /\ updatePath(poses)
    /\ lastEvent' = "path"
    /\ noStatus
    /\ quiet
    /\ UNCHANGED <<viz, stampVars, droneVars, ros, transport, timers, subs, laserVars, cameraVars,
                   opens, fallbacks, tornDown, scanData, positions, colors,
                   canvas, loading>>

\* the laser-scan visualization after its first 'connection' event
InitScan ==
    /\ viz = "laser"
    /\ ros = 1
    /\ transport = [r \in RosIds |-> IF r = 1 THEN "open" ELSE "none"]
    /\ connectionStatus = "connected"
    /\ statusMessage = Msg("Connected", "")
    /\ timers = <<>>
    /\ subs = {NewTopic(ScanTopic, 1), NewTopic(PathTopic, 1), NewTopic(StatusTopic, 1)}
    /\ laserScanTopic = NewTopic(ScanTopic, 1)
    /\ goalPublisher = NewTopic(GoalTopic, 1)
    /\ cancelPublisher = NewTopic(CancelTopic, 1)
    /\ pathSubscriber = NewTopic(PathTopic, 1)
    /\ statusSubscriber = NewTopic(StatusTopic, 1)
    /\ navigationStatus = "IDLE"
    /\ goalPosition = NoGoal
    /\ goalMarkerVisible = FALSE
    /\ navControlsShown = FALSE
    /\ published = NoMessage
    /\ cameraSubscriber = NoTopic
    /\ receivedMessage = [r \in RosIds |-> FALSE]
    /\ frameCount = 0
    /\ elapsed = 0
    /\ opens = {1}
    /\ fallbacks = [r \in RosIds |-> 0]
    /\ tornDown = FALSE
    /\ lastEvent = "connection"
    /\ signals = <<Msg("Connected", "")>>
    /\ unsubscribed = {}
    /\ outcome = "ok"
    /\ statusList = <<>>
    /\ scanData = NoScan
    /\ positions = <<>>
    /\ colors = <<>>
    /\ pathLine = NoPath
    /\ canvas = NoCanvas
    /\ loading = <<>>
    /\ received = NoFrame
    /\ stamp = NoStamp
    /\ clockShown = NoCall
    /\ telemetry = InitialTelemetry
    /\ drone = InitialDrone
    /\ trajectoryPoints = <<>>
    /\ inflight = <<>>
    /\ late = FALSE
    /\ shifted = FALSE

NextScan ==
    \/ OnScan
    \/ OnPath

SpecScan == InitScan /\ [][NextScan]_vars

\* the camera visualization after its first 'connection' event
InitImage ==
    /\ viz = "camera"
    /\ ros = 1
    /\ transport = [r \in RosIds |-> IF r = 1 THEN "open" ELSE "none"]
    /\ connectionStatus = "connected"
    /\ statusMessage = Msg("Connected", "")
    /\ timers = <<Timer("probe", 1, ProbeTimeout)>>
    /\ subs = {NewTopic(CompressedTopic, 1)}
    /\ laserScanTopic = NoTopic
    /\ goalPublisher = NoTopic
    /\ cancelPublisher = NoTopic
    /\ pathSubscriber = NoTopic
    /\ statusSubscriber = NoTopic
    /\ navigationStatus = "IDLE"
    /\ goalPosition = NoGoal
    /\ goalMarkerVisible = FALSE
    /\ navControlsShown = FALSE
    /\ published = NoMessage
    /\ cameraSubscriber = NewTopic(CompressedTopic, 1)
    /\ receivedMessage = [r \in RosIds |-> FALSE]
    /\ frameCount = 0
    /\ elapsed = 0
    /\ opens = {1}
    /\ fallbacks = [r \in RosIds |-> 0]
    /\ tornDown = FALSE
    /\ lastEvent = "connection"
    /\ signals = <<Msg("Connected", "")>>
    /\ unsubscribed = {}
    /\ outcome = "ok"
    /\ statusList = <<>>
    /\ scanData = NoScan
    /\ positions = <<>>
    /\ colors = <<>>
    /\ pathLine = NoPath
    /\ canvas = NoCanvas
    /\ loading = <<>>
    /\ received = NoFrame
    /\ stamp = NoStamp
    /\ clockShown = NoCall
    /\ telemetry = InitialTelemetry
    /\ drone = InitialDrone
    /\ trajectoryPoints = <<>>
    /\ inflight = <<>>
    /\ late = FALSE
    /\ shifted = FALSE

NextImage ==
    \/ Tick
    \/ ProbeTimerFire
    \/ OnCompressedImage(CompressedFrames)
    \/ OnRawImage(RawFrames)
    \/ ImageOnLoad
    \/ ImageOnError

SpecImage == InitImage /\ [][NextImage]_vars

\* the laser-scan visualization with a running clock: goals are placed and sent
NextGoal ==
    \/ SetGoalPosition
    \/ SendGoal(ClockRuns)

SpecGoal == InitScan /\ [][NextGoal]_vars

\* ---- drone telemetry -------------------------------------------------------------
\* the telemetry the server answers with: altitudes 0, 0.1 and 0.2 (in
\* twentieths), yaw 0 or 90 degrees
TelemetryData ==
    {[altitude |-> a, pitch |-> 0, roll |-> 0, yaw |-> w] : a \in {0, 2, 4}, w \in {0, 90}}

\* the distance 0.1 of updateTrajectory, in twentieths
MoveThreshold == 2
\* THREE.MathUtils.degToRad, the result counted in quarter turns (90 degrees)
degToRad(d) == d \div 90

\* trajectoryPoints after the length check that follows the push
Capped_NoShift(points) == points
Capped(points) ==
    IF Len(points) > maxTrajectoryPoints THEN Tail(points) ELSE points

\* updateTrajectory, run with the position updateDrone has just set
updateTrajectory ==
    IF \/ Len(trajectoryPoints) = 0
       \/ LET p == drone'.position
              q == trajectoryPoints[Len(trajectoryPoints)]
          IN  \* the square of currentPos.distanceTo(q)
              (p.x - q.x) * (p.x - q.x) + (p.y - q.y) * (p.y - q.y)
                 + (p.z - q.z) * (p.z - q.z) > MoveThreshold * MoveThreshold
    THEN /\ trajectoryPoints' = Capped(Append(trajectoryPoints, drone'.position))
         /\ shifted' = (Len(trajectoryPoints) + 1 > maxTrajectoryPoints)
    ELSE /\ UNCHANGED trajectoryPoints
         /\ shifted' = FALSE

updateDrone(data) ==
    /\ drone' = [position |-> [drone.position EXCEPT !.y = data.altitude],
                 rotation |-> [x |-> degToRad(data.pitch), y |-> degToRad(data.yaw),
                               z |-> degToRad(data.roll)]]
    /\ updateTrajectory

\* what every step of the drone view leaves alone
pageVars == <<viz, connVars, laserVars, cameraVars, opens, fallbacks, tornDown,
              outVars, viewVars, stampVars>>

\* the interval of startTelemetryUpdates fires: fetchTelemetry up to its first await
FetchTelemetry ==
    /\ viz = "drone"
    /\ Len(inflight) < MaxInFlight
    /\ inflight' = Append(inflight, FALSE)
    /\ late' = FALSE
    /\ shifted' = FALSE
    /\ lastEvent' = "fetch"
    /\ UNCHANGED <<pageVars, telemetry, drone, trajectoryPoints>>

\* a response arrives and parses: the rest of the try block of fetchTelemetry
TelemetryResponse ==
    /\ viz = "drone"
    /\ \E i \in 1..Len(inflight), data \in TelemetryData :
        /\ telemetry' = data
        /\ updateDrone(data)
        /\ late' = inflight[i]
        \* the fetches issued before fetch i are marked, fetch i is settled
        /\ inflight' = [j \in 1..(Len(inflight) - 1) |->
                           IF j < i THEN TRUE ELSE inflight[j + 1]]
    /\ lastEvent' = "telemetry"
    /\ UNCHANGED pageVars

\* fetch or response.json() rejects: the catch block of fetchTelemetry
TelemetryFailure ==
    /\ viz = "drone"
    /\ \E i \in 1..Len(inflight) : inflight' = Remove(inflight, i)
    /\ late' = FALSE
    /\ shifted' = FALSE
    /\ lastEvent' = "fetchFailed"
    /\ UNCHANGED <<pageVars, telemetry, drone, trajectoryPoints>>

\* the drone view after its constructor: no rosbridge connection exists
InitDrone ==
    /\ viz = "drone"
    /\ ros = NoRos
    /\ transport = [r \in RosIds |-> "none"]
    /\ connectionStatus = "disconnected"
    /\ statusMessage = Msg("", "")
    /\ timers = <<>>
    /\ subs = {}
    /\ laserScanTopic = NoTopic
    /\ goalPublisher = NoTopic
    /\ cancelPublisher = NoTopic
    /\ pathSubscriber = NoTopic
    /\ statusSubscriber = NoTopic
    /\ navigationStatus = "IDLE"
    /\ goalPosition = NoGoal
    /\ goalMarkerVisible = FALSE
    /\ navControlsShown = FALSE
    /\ published = NoMessage
    /\ cameraSubscriber = NoTopic
    /\ receivedMessage = [r \in RosIds |-> FALSE]
    /\ frameCount = 0
    /\ elapsed = 0
    /\ opens = {}
    /\ fallbacks = [r \in RosIds |-> 0]
    /\ tornDown = FALSE
    /\ lastEvent = "construct"
    /\ signals = <<>>
    /\ unsubscribed = {}
    /\ outcome = "ok"
    /\ statusList = <<>>
    /\ scanData = NoScan
    /\ positions = <<>>
    /\ colors = <<>>
    /\ pathLine = NoPath
    /\ canvas = NoCanvas
    /\ loading = <<>>
    /\ received = NoFrame
    /\ stamp = NoStamp
    /\ clockShown = NoCall
    /\ telemetry = InitialTelemetry
    /\ drone = InitialDrone
    /\ trajectoryPoints = <<>>
    /\ inflight = <<>>
    /\ late = FALSE
    /\ shifted = FALSE

NextDrone ==
    \/ FetchTelemetry
    \/ TelemetryResponse
    \/ TelemetryFailure

SpecDrone == InitDrone /\ [][NextDrone]_vars

Next ==
    \/ LaserOnConnection
    \/ CameraOnConnection
    \/ OnError
    \/ OnClose
    \/ ReconnectTimerFire
    \/ Tick
    \/ Disconnect
    \/ OnCompressedImage(EmptyCompressedFrames)
    \/ OnRawImage(EmptyRawFrames)
    \/ DropCameraMessage
    \/ ProbeTimerFire
    \/ SetGoalPosition
    \/ SendGoal(FrozenClock)
    \/ ClearGoal
    \/ CancelNavigation
    \/ OnStatusMessage

Spec == Init /\ [][Next]_vars

\* ---- derived notions used by the properties ----------------------------------
Closed == {r \in RosIds : transport[r] = "closed"}

\* the state of the connection as the transport of this.ros has it
ConnectionState ==
    CASE transport[ros] = "connecting" -> "connecting"
      [] transport[ros] \in {"open", "closing"} -> "connected"
      [] OTHER -> "disconnected"

\* attempts that closed without ever opening, since the last one that opened
ConsecutiveFailures == Cardinality({r \in Closed : \A q \in opens : q < r})

RECURSIVE SumTo(_, _)
SumTo(f, n) == IF n = 0 THEN 0 ELSE f[n] + SumTo(f, n - 1)
TotalFallbacks == SumTo(fallbacks, MaxAttempts)

OpenSubs == {s \in subs : transport[s.ros] = "open"}

\* C1: a transport-open event leaves the connection Connected; a transport-close
\* event of a connection that had opened leaves it Disconnected with one retry
\* timer of the full delay pending; every close leads to exactly one reconnect
\* attempt, so the attempts made plus the retries pending equal one plus the
\* number of closes.
C1_ReconnectOnce ==
    /\ lastEvent = "connection" => connectionStatus = "connected"
    /\ (lastEvent = "close" /\ ros \in opens) =>
          /\ connectionStatus = "disconnected"
          /\ Cardinality(Pending("reconnect", ros)) = 1
          /\ \A i \in Pending("reconnect", ros) : timers[i].remaining = ReconnectDelay
    /\ lastEvent = "reconnect" =>
          /\ transport[ros] = "connecting"
          /\ Pending("reconnect", ros - 1) = {}
    /\ ros + Cardinality(PendingKind("reconnect")) = 1 + Cardinality(Closed)

C1_Witness ==
    /\ lastEvent = "reconnect"
    /\ ros = 2
    /\ 1 \in opens

\* C2: once disconnect() has been called no reconnect timer is pending and no
\* reconnect attempt is made.
C2_NoReconnectAfterDisconnect ==
    tornDown => (PendingKind("reconnect") = {} /\ lastEvent # "reconnect")

\* C3: a transport-error event leaves the connection Disconnected with a
\* reconnect attempt scheduled, as a transport-close event does.
C3_ErrorSchedulesRetry ==
    lastEvent = "error" =>
        /\ connectionStatus = "disconnected"
        /\ Pending("reconnect", ros) # {}

\* C4: after any number n of consecutive failed attempts the close handler has
\* scheduled a further attempt, and its delay is the fixed reconnect delay.
C4_RetryForever ==
    /\ \A n \in 1..MaxAttempts :
          (lastEvent = "close" /\ ConsecutiveFailures = n) =>
              \E i \in Pending("reconnect", ros) : timers[i].remaining = ReconnectDelay
    /\ \A i \in PendingKind("reconnect") : timers[i].remaining <= ReconnectDelay

C4_Witness ==
    /\ lastEvent = "close"
    /\ ConsecutiveFailures = MaxAttempts

\* C5: while the transport of the laser-scan visualization is open, the scan,
\* path and status subscribers and the goal and cancel publishers are Topic
\* objects of the current Ros object, and right after the connection handler
\* their callbacks are subscribed.
C5_ReadyRebindsTopics ==
    /\ (viz = "laser" /\ transport[ros] = "open") =>
          /\ laserScanTopic = NewTopic(ScanTopic, ros)
          /\ pathSubscriber = NewTopic(PathTopic, ros)
          /\ statusSubscriber = NewTopic(StatusTopic, ros)
          /\ goalPublisher = NewTopic(GoalTopic, ros)
          /\ cancelPublisher = NewTopic(CancelTopic, ros)
          /\ {pathSubscriber, statusSubscriber} \subseteq subs
    /\ (viz = "laser" /\ lastEvent = "connection") => laserScanTopic \in subs

C5_Witness ==
    /\ viz = "laser"
    /\ lastEvent = "connection"
    /\ ros = 2
    /\ 1 \in opens

\* C6: right after connectToROS and after every transport event (connection,
\* error, close) connectionStatus is the state of the connection.
C6_TransitionsObservable ==
    lastEvent \in {"connect", "reconnect", "connection", "error", "close"} =>
        connectionStatus = ConnectionState

C6_Witness ==
    /\ lastEvent = "error"
    /\ ros \in opens

\* C7: connectionStatus changes only in connectToROS and in the handlers of
\* the transport events.
C7_StatusOnlyFromTransport ==
    [][connectionStatus' # connectionStatus =>
          lastEvent' \in {"reconnect", "connection", "error", "close"}]_vars

\* C8: when the probe timer fires on an open connection without a compressed
\* message received, the only subscribed camera callback is the raw one on the
\* bare topic; from then on no compressed callback is subscribed on that
\* connection and none runs.
C8_FallbackToRaw ==
    /\ (viz = "camera" /\ lastEvent = "probeTimeout" /\ transport[ros] = "open") =>
          /\ OpenSubs = {NewTopic(CameraTopic, ros)}
          /\ cameraSubscriber = NewTopic(CameraTopic, ros)
    /\ \A r \in RosIds : fallbacks[r] > 0 => NewTopic(CompressedTopic, r) \notin subs
    /\ lastEvent = "compressedImage" => fallbacks[ros] = 0

C8_Witness ==
    /\ lastEvent = "droppedCompressed"
    /\ transport[ros] = "open"
    /\ fallbacks[ros] = 1
    /\ OpenSubs = {NewTopic(CameraTopic, ros)}

\* C9: once a compressed message was received on a connection its probe timer
\* is no longer pending, the raw topic is not subscribed on that connection,
\* and the camera subscriber of the current connection stays the compressed
\* one, subscribed unless disconnect() unsubscribed it.
C9_CommitCompressed ==
    \A r \in RosIds : receivedMessage[r] =>
        /\ Pending("probe", r) = {}
        /\ NewTopic(CameraTopic, r) \notin subs
        /\ fallbacks[r] = 0
        /\ r = ros => cameraSubscriber = NewTopic(CompressedTopic, r)
        /\ (r = ros /\ ~tornDown) => cameraSubscriber \in subs

C9_Witness ==
    /\ receivedMessage[ros]
    /\ transport[ros] = "open"
    /\ frameCount = 0
    /\ elapsed > ProbeTimeout

\* C10 as stated: over the whole life of the object the camera subscriber
\* switches to raw at most once and never returns from raw to compressed.
C10_NoSecondProbe ==
    [][/\ cameraSubscriber.name = CameraTopic => cameraSubscriber'.name = CameraTopic
       /\ TotalFallbacks' <= 1]_vars

\* C10 amended: the camera subscriber switches to raw at most once per
\* connection (per Ros object), and it returns from raw to compressed only in
\* the connection handler of a later Ros object, which starts that connection's
\* own probe.
C10_OncePerConnection ==
    [][/\ \A r \in RosIds : fallbacks'[r] <= 1
       /\ (cameraSubscriber.name = CameraTopic /\ cameraSubscriber'.name # CameraTopic) =>
              /\ lastEvent' = "connection"
              /\ cameraSubscriber'.ros > cameraSubscriber.ros]_vars

C10_Witness ==
    /\ fallbacks[1] = 1
    /\ fallbacks[2] = 1
    /\ cameraSubscriber = NewTopic(CompressedTopic, 3)

\* ---- notions used by the properties of the streams and of the status machine ---
Last(l) == l[Len(l)]
Kinds(sig) == [i \in 1..Len(sig) |-> sig[i].kind]
GoalStatusNames == <<"PENDING", "ACTIVE", "PREEMPTED", "SUCCEEDED", "ABORTED",
                     "REJECTED", "PREEMPTING", "RECALLING", "RECALLED", "LOST">>
NameOfCode(c) == IF c \in 0..9 THEN GoalStatusNames[c + 1] ELSE "UNKNOWN"
GoalStatusCode == {GoalStatusNames[i] : i \in 1..10} \cup {"UNKNOWN"}

\* the logical streams and their subscriptions on a transport that has not closed
LiveSubs(names) == {s \in subs : s.name \in names /\ transport[s.ros] # "closed"}

\* C11: when the probe timer fires after disconnect() unsubscribed the camera
\* stream, it subscribes nothing and does not touch the status.
C11_DeadProbeStaysDead ==
    [][(lastEvent' = "probeTimeout" /\ tornDown /\ cameraSubscriber \notin subs) =>
          /\ subs' = subs
          /\ signals' = <<>>
          /\ UNCHANGED <<connectionStatus, statusMessage>>]_vars

C13_OneSubscriptionPerStream ==
    \A names \in {{ScanTopic}, {PathTopic}, {StatusTopic}, {CameraTopic, CompressedTopic}} : Cardinality(LiveSubs(names)) <= 1

C13_Witness ==
    /\ viz = "camera"
    /\ ros = 2
    /\ transport[ros] = "open"
    /\ fallbacks[ros] = 1
    /\ LiveSubs({CameraTopic, CompressedTopic}) = {NewTopic(CameraTopic, ros)}
    /\ \E s \in subs : s.ros = 1

\* C14: with a goal held, status 1 emits exactly "navigating" and status 3
\* emits exactly "goal reached" and clears the goal; with no goal held,
\* status 4 emits exactly "navigation failed" and leaves the goal none.
C14_SignalsOfStatusCodes ==
    [][lastEvent' = "statusMessage" =>
          /\ (Last(statusList') = 1 /\ goalPosition.held) =>
                 Kinds(signals') = <<"Navigating">>
          /\ (Last(statusList') = 3 /\ goalPosition.held) =>
                 /\ Kinds(signals') = <<"GoalReached">>
                 /\ goalPosition' = NoGoal
          /\ (Last(statusList') = 4 /\ ~goalPosition.held) =>
                 /\ Kinds(signals') = <<"NavigationFailed">>
                 /\ goalPosition' = NoGoal]_vars

\* C15: a status message acts as the message holding its last entry alone:
\* the status stored, the signals emitted and the goal afterwards are those of
\* handleNavigationStatus on the last entry; an empty list changes and emits
\* nothing.
C15_LastEntryDecides ==
    [][lastEvent' \in {"statusMessage", "emptyStatusMessage"} =>
          IF statusList' = <<>>
          THEN /\ lastEvent' = "emptyStatusMessage"
               /\ signals' = <<>>
               /\ UNCHANGED <<navigationStatus, goalPosition, goalMarkerVisible,
                              navControlsShown, connectionStatus, statusMessage>>
          ELSE /\ lastEvent' = "statusMessage"
               /\ navigationStatus' = statusMap(statusList'[Len(statusList')])
               /\ signals' =
                     [i \in 1..Len(NavCalls(statusList'[Len(statusList')], goalPosition.held))
                        |-> NavCalls(statusList'[Len(statusList')], goalPosition.held)[i].message]
                     \o (IF statusList'[Len(statusList')] = 3
                         THEN <<Msg("Connected", "")>> ELSE <<>>)
               /\ goalPosition' =
                     IF statusList'[Len(statusList')] = 3 THEN NoGoal ELSE goalPosition]_vars

C15_Witness ==
    /\ lastEvent = "statusMessage"
    /\ Len(statusList) = 2
    /\ statusList[1] = 3
    /\ statusList[2] = 1
    /\ goalPosition.held
    /\ navigationStatus = "ACTIVE"

\* C16: a status message whose last entry is 1, 4 or 5 leaves the goal
\* position, the goal marker and the navigation controls as they were; 1 emits
\* "navigating", 4 and 5 emit "navigation failed".
C16_GoalKeptOnActiveAndFailure ==
    [][(lastEvent' = "statusMessage" /\ Last(statusList') \in {1, 4, 5}) =>
          /\ UNCHANGED <<goalPosition, goalMarkerVisible, navControlsShown>>
          /\ Kinds(signals') = IF Last(statusList') = 1
                               THEN <<"Navigating">>
                               ELSE <<"NavigationFailed">>]_vars

C16_Witness ==
    /\ lastEvent = "statusMessage"
    /\ Last(statusList) = 4
    /\ goalPosition.held
    /\ goalMarkerVisible
    /\ navControlsShown

\* C17: for a last entry other than 1, 3, 4 and 5 the handler emits one
\* "status update" carrying the status name if a goal is held and nothing if
\* none is held, and leaves the goal as it was.
C17_StatusUpdateOnlyWithGoal ==
    [][(lastEvent' = "statusMessage" /\ Last(statusList') \notin {1, 3, 4, 5}) =>
          /\ UNCHANGED <<goalPosition, goalMarkerVisible, navControlsShown>>
          /\ signals' = IF goalPosition.held
                        THEN <<Msg("StatusUpdate", NameOfCode(Last(statusList')))>>
                        ELSE <<>>]_vars

C17_Witness ==
    /\ lastEvent = "statusMessage"
    /\ Last(statusList) = 9
    /\ goalPosition.held
    /\ signals = <<Msg("StatusUpdate", "LOST")>>

\* C18 as stated: in every reachable state, the initial one included,
\* navigationStatus is one of the ten status names or UNKNOWN.
C18_AlwaysGoalStatusCode ==
    navigationStatus \in GoalStatusCode

\* C18 amended: navigationStatus is 'IDLE' from construction until the first
\* status message with a non-empty list and never again afterwards; after each
\* such message it is the name of the last entry's code: 0..9 map to PENDING,
\* ACTIVE, PREEMPTED, SUCCEEDED, ABORTED, REJECTED, PREEMPTING, RECALLING,
\* RECALLED, LOST in that order and every other value to UNKNOWN.
C18_StatusNames ==
    [][/\ navigationStatus' \in GoalStatusCode \cup {"IDLE"}
       /\ lastEvent' = "statusMessage" =>
             navigationStatus' = NameOfCode(Last(statusList'))
       /\ navigationStatus' = "IDLE" =>
             (navigationStatus = "IDLE" /\ lastEvent' # "statusMessage")]_vars

C18_Witness ==
    /\ lastEvent = "statusMessage"
    /\ Last(statusList) = 9
    /\ navigationStatus = "LOST"

\* C19 as stated: after a reconnect the last-seen status and the goal are back
\* at their initial values.
C19_ResetOnReconnect ==
    lastEvent = "reconnect" => (navigationStatus = "IDLE" /\ goalPosition = NoGoal)

\* C19 amended: the last-seen status and the held goal live in the object and
\* no transport event (error, close, reconnect, connection) changes them: they
\* survive a connection drop and the reconnection.
C19_KeptAcrossReconnect ==
    [][lastEvent' \in {"error", "close", "reconnect", "connection"} =>
          UNCHANGED <<navigationStatus, goalPosition, goalMarkerVisible,
                      navControlsShown>>]_vars

C19_Witness ==
    /\ lastEvent = "connection"
    /\ ros = 2
    /\ 1 \in opens
    /\ goalPosition.held
    /\ navigationStatus = "ACTIVE"

\* C20: sending a held goal without a goal publisher, or cancelling without a
\* cancel publisher, ends in an error the caller observes and publishes
\* nothing.
C20_MisuseReported ==
    /\ (lastEvent = "sendGoal" /\ goalPosition.held /\ goalPublisher = NoTopic) =>
          (outcome = "error" /\ published = NoMessage)
    /\ (lastEvent = "cancelNavigation" /\ cancelPublisher = NoTopic) =>
          (outcome = "error" /\ published = NoMessage)

\* C21: every cancel command published carries the empty goal identifier,
\* whichever goal is held and whichever status was seen last; after
\* cancelNavigation with a cancel publisher the held goal is none and the goal
\* marker is hidden.
C21_CancelAllGoals ==
    [][/\ published'.topic = CancelTopic => published'.id = ""
       /\ (lastEvent' = "cancelNavigation" /\ cancelPublisher # NoTopic) =>
             /\ published' = [topic |-> CancelTopic, x |-> 0, y |-> 0, id |-> "",
                              ros |-> cancelPublisher.ros]
             /\ goalPosition' = NoGoal
             /\ ~goalMarkerVisible']_vars

C21_Witness ==
    /\ lastEvent = "cancelNavigation"
    /\ published.topic = CancelTopic
    /\ navigationStatus = "ACTIVE"
    /\ goalPosition = NoGoal
    /\ Kinds(signals) = <<"NavigationCanceled", "Connected">>

\* ---- notions used by the properties of the scan and of the path ------------------
\* the readings (counted from 1) that are neither NaN, nor below range_min,
\* nor above range_max
Kept(scan) ==
    {i \in 1..Len(scan.ranges) :
        /\ scan.ranges[i].kind # "nan"
        /\ ~Lt(scan.ranges[i], scan.range_min)
        /\ ~Lt(scan.range_max, scan.ranges[i])}
\* the place of kept reading i among the kept readings
Place(scan, i) == Cardinality({j \in Kept(scan) : j <= i})
Triple(array, k) == SubSeq(array, 3 * k - 2, 3 * k)

\* C22: after a scan message the decoded positions and the decoded colors
\* hold one triple for every reading that is neither below range_min, nor
\* above range_max, nor NaN, and nothing for the other readings.
C22_InvalidReadingsSkipped ==
    lastEvent = "scan" =>
        /\ Len(positions) = 3 * Cardinality(Kept(scanData))
        /\ Len(colors) = 3 * Cardinality(Kept(scanData))

C22_Witness ==
    /\ lastEvent = "scan"
    /\ scanData.ranges = <<NaN, J(1)>>
    /\ scanData.range_min = J(1)
    /\ Len(positions) = 3
    /\ Len(colors) = 3

\* C23: after a scan message positions and colors have the same length and the
\* k-th triple of each comes from the k-th retained reading.
C23_PositionsAndColorsAligned ==
    lastEvent = "scan" =>
        /\ Len(positions) = Len(colors)
        /\ Len(positions) = 3 * Cardinality(Kept(scanData))
        /\ \A i \in Kept(scanData) :
              /\ Triple(positions, Place(scanData, i)) = Point(scanData, i - 1)
              /\ Triple(colors, Place(scanData, i)) = Color(scanData, i - 1)

C23_Witness ==
    /\ lastEvent = "scan"
    /\ scanData.ranges = <<NaN, J(2)>>
    /\ scanData.angle_min = 0
    /\ positions = <<J(0), J(2), J(0)>>
    /\ colors = <<J(1), J(1), J(0)>>

\* C24: after a scan message with range_max = range_min every color entry is a
\* finite number and the green channel of every retained reading is 0.
C24_FlatRangeIsGreenZero ==
    (lastEvent = "scan" /\ scanData.range_max = scanData.range_min) =>
        \A k \in 1..Len(colors) :
            /\ colors[k].kind = "num"
            /\ (k % 3 = 2) => colors[k] = J(0)

\* C25: a scan message replaces the stored frame and the decoded points by
\* those of that message alone, and no other message touches them.
C25_LatestScanOnly ==
    [][IF lastEvent' = "scan"
       THEN /\ scanData' = received'.scan
            /\ Len(positions') = 3 * Cardinality(Kept(received'.scan))
            /\ Len(colors') = 3 * Cardinality(Kept(received'.scan))
            /\ \A i \in Kept(received'.scan) :
                  /\ Triple(positions', Place(received'.scan, i)) = Point(received'.scan, i - 1)
                  /\ Triple(colors', Place(received'.scan, i)) = Color(received'.scan, i - 1)
       ELSE UNCHANGED <<scanData, positions, colors>>]_vars

C25_Witness ==
    /\ lastEvent = "scan"
    /\ pathLine.visible
    /\ scanData.ranges = <<J(2), J(1)>>
    /\ Len(positions) = 6

\* C30: a path message with n >= 1 poses leaves the n waypoints (x, y) of the
\* poses, in order; an empty path leaves a state other than the one before any
\* path message.
C30_PathWaypoints ==
    lastEvent = "path" =>
        IF received.poses = <<>>
        THEN ~pathLine.visible /\ pathLine # NoPath
        ELSE /\ pathLine.visible
             /\ Len(pathLine.position) = 3 * Len(received.poses)
             /\ \A k \in 1..Len(received.poses) :
                   /\ pathLine.position[3 * k - 2] = J(received.poses[k].x)
                   /\ pathLine.position[3 * k - 1] = J(received.poses[k].y)

\* ---- notions used by the properties of the camera frames -------------------------
\* the bytes with the first and the third byte of every pixel exchanged
SwapRB(bytes) ==
    [j \in 1..Len(bytes) |-> bytes[3 * ((j - 1) \div 3) + 3 - ((j - 1) % 3)]]
BytesPerPixel(encoding) ==
    CASE encoding \in {"rgb8", "bgr8"} -> 3
      [] encoding \in {"rgba8", "bgra8"} -> 4
      [] OTHER -> 1
\* the frame cannot be decoded: no data, malformed base64, unsupported encoding
DecodeFails(frame) ==
    \/ frame.data.form = "none"
    \/ frame.data.body = <<>>
    \/ (frame.data.form = "string" /\ AtobThrows(frame.data.body))
    \/ frame.encoding \notin {"rgb8", "bgr8", "rgba8", "bgra8", "mono8", "grayscale"}

\* C26: the RGBA bytes put on the canvas for an rgb8 (bgr8) image are those of
\* the bgr8 (rgb8) image of the same size whose pixels have R and B exchanged.
C26_ChannelOrderRoundTrip ==
    (lastEvent = "rawImage" /\ outcome = "ok" /\ received.encoding \in {"rgb8", "bgr8"}) =>
        canvas.data = RawImageData(IF received.encoding = "rgb8" THEN "bgr8" ELSE "rgb8",
                                   SwapRB(FrameBytes(received)),
                                   received.width, received.height)

C26_Witness ==
    /\ lastEvent = "rawImage"
    /\ received.encoding = "bgr8"
    /\ received.data.form = "string"
    /\ FrameBytes(received) = <<3, 2, 1, 6, 5, 4>>
    /\ canvas = [width |-> 2, height |-> 1, data |-> <<1, 2, 3, 255, 4, 5, 6, 255>>]

\* C27: a raw image message that cannot be decoded leaves the canvas, its
\* size and its contents, as it was.
C27_FailedFrameLeavesCanvas ==
    [][(lastEvent' = "rawImage" /\ DecodeFails(received')) => canvas' = canvas]_vars

\* C28: a raw image whose payload length differs from width * height * bytes
\* per pixel puts nothing on the canvas.
C28_SizeMismatchNotRendered ==
    [][(/\ lastEvent' = "rawImage"
        /\ ~DecodeFails(received')
        /\ Len(FrameBytes(received')) #
              received'.width * received'.height * BytesPerPixel(received'.encoding))
          => canvas' = canvas]_vars

\* C29: camera frames are rendered in arrival order: a raw frame is on the
\* canvas when its handler returns, and a compressed frame is drawn only when
\* no compressed frame that arrived before it is still to be drawn.
C29_RenderedInArrivalOrder ==
    [][/\ (lastEvent' = "rawImage" /\ outcome' = "ok") =>
             canvas'.data = RawImageData(received'.encoding, FrameBytes(received'),
                                         received'.width, received'.height)
       /\ lastEvent' = "imageLoad" =>
             \E i \in 1..Len(loading) :
                 /\ loading' = Remove(loading, i)
                 /\ canvas'.data = loading[i].data
                 /\ \A j \in 1..(i - 1) : loading[j].corrupt]_vars

\* ---- properties of the geometry of the scan --------------------------------------
\* the readings (counted from 1) inside the closed interval [range_min, range_max]
InRange(scan) ==
    {i \in 1..Len(scan.ranges) :
        /\ scan.ranges[i].kind = "num"
        /\ scan.range_min.num * scan.ranges[i].den <= scan.ranges[i].num
        /\ scan.ranges[i].num <= scan.range_max.num * scan.ranges[i].den}
\* the green channel of reading i of InRange: the second entry of the triple
\* at its place among the readings of InRange
Green(i) == colors[3 * Cardinality({j \in InRange(scanData) : j <= i}) - 1]

\* C31: the point decoded from a retained reading i (counted from 1) lies at
\* the angle angle_min + (i - 1) * angle_increment of its index in ranges,
\* whatever readings before it were skipped.
C31_AngleFromOriginalIndex ==
    lastEvent = "scan" =>
        \A i \in Kept(scanData) :
            Triple(positions, Place(scanData, i)) =
                <<Times(scanData.ranges[i],
                        Cos(scanData.angle_min + (i - 1) * scanData.angle_increment)),
                  Times(scanData.ranges[i],
                        Sin(scanData.angle_min + (i - 1) * scanData.angle_increment)),
                  J(0)>>

C31_Witness ==
    /\ lastEvent = "scan"
    /\ scanData.ranges = <<NaN, J(1)>>
    /\ scanData.angle_min = 1
    /\ positions = <<J(0 - 1), J(0), J(0)>>

\* C32: a reading equal to range_min or to range_max is retained; with
\* range_min < range_max the reading at range_min gets green 0, the reading at
\* range_max green 1, and green does not decrease with the range.
C32_BoundaryReadingsRetained ==
    lastEvent = "scan" =>
        /\ Len(positions) = 3 * Cardinality(InRange(scanData))
        /\ Len(colors) = 3 * Cardinality(InRange(scanData))
        /\ Lt(scanData.range_min, scanData.range_max) =>
              \A i \in InRange(scanData) :
                  /\ scanData.ranges[i] = scanData.range_min =>
                        Green(i) = J(0)
                  /\ scanData.ranges[i] = scanData.range_max =>
                        Green(i) = J(1)
                  /\ \A j \in InRange(scanData) :
                        ~Lt(scanData.ranges[j], scanData.ranges[i]) =>
                            ~Lt(Green(j),
                                Green(i))

C32_Witness ==
    /\ lastEvent = "scan"
    /\ scanData.ranges = <<J(1), J(2)>>
    /\ scanData.range_min = J(1)
    /\ scanData.range_max = J(2)
    /\ colors = <<J(1), J(0), J(0), J(1), J(1), J(0)>>

\* ---- properties of the pixel conversion ------------------------------------------
\* the four output bytes of a pixel with source bytes s
OutputPixel(encoding, s) ==
    CASE encoding = "rgb8" -> <<s[1], s[2], s[3], 255>>
      [] encoding = "bgr8" -> <<s[3], s[2], s[1], 255>>
      [] encoding = "rgba8" -> <<s[1], s[2], s[3], s[4]>>
      [] encoding = "bgra8" -> <<s[3], s[2], s[1], s[4]>>
      [] OTHER -> <<s[1], s[1], s[1], 255>>
\* C33: a raw image with a supported encoding whose payload holds width *
\* height pixels, sent as base64 text or as a byte array, puts width * height
\* * 4 bytes on the canvas, and pixel p holds the source bytes of pixel p in
\* the order R, G, B, A of its encoding (alpha 255 where the encoding has none,
\* the grey byte three times for mono8).
C33_PixelMapping ==
    (lastEvent = "rawImage" /\ Supported(received.encoding)) =>
        \A bytes \in {Payload(received.encoding, px) :
                          px \in {q \in PixelSeqs : Len(q) = received.width * received.height}} :
            received.data \in {StringData(Btoa(bytes)), ArrayData(bytes)} =>
                /\ outcome = "ok"
                /\ Len(canvas.data) = received.width * received.height * 4
                /\ \A p \in 0..(received.width * received.height - 1) :
                      SubSeq(canvas.data, 4 * p + 1, 4 * p + 4) =
                          OutputPixel(received.encoding,
                                      SubSeq(bytes,
                                             BytesPerPixel(received.encoding) * p + 1,
                                             BytesPerPixel(received.encoding) * (p + 1)))

C33_Witness ==
    /\ lastEvent = "rawImage"
    /\ received.encoding = "bgra8"
    /\ received.width = 1
    /\ received.data = StringData(Btoa(<<6, 5, 4, 7>>))
    /\ canvas = [width |-> 1, height |-> 1, data |-> <<4, 5, 6, 7>>]

\* ---- properties of the goal and of the connection ----------------------------------
\* the transports that have been created and have not closed
Live == {r \in RosIds : transport[r] \notin {"none", "closed"}}

\* C34: a held goal is cleared only by the Cancel Goal button, by
\* cancelNavigation, or by a SUCCEEDED status that arrives after the held goal
\* was sent; a SUCCEEDED status that arrives before it is sent keeps it.
C34_GoalClearedOnlyWhenSent ==
    [][(goalPosition.held /\ ~goalPosition'.held) =>
          \/ lastEvent' \in {"clearGoal", "cancelNavigation"}
          \/ (lastEvent' = "statusMessage" /\ Last(statusList') = 3
              /\ published.topic = GoalTopic
              /\ published.x = goalPosition.x
              /\ published.y = goalPosition.y)]_vars

\* C35: at most one reconnect timer is pending and at most one transport is
\* live; a transport is created only by a reconnect timer firing (after the
\* initial connect) and a reconnect timer is started only by the close of the
\* current transport.
C35_OneTimerOneTransport ==
    [][/\ Cardinality(PendingKind("reconnect")') <= 1
       /\ Cardinality(Live') <= 1
       /\ ros' # ros =>
             /\ lastEvent' = "reconnect"
             /\ Due("reconnect")
             /\ Live' = {ros'}
       /\ Cardinality(PendingKind("reconnect")') > Cardinality(PendingKind("reconnect")) =>
             /\ lastEvent' = "close"
             /\ ros \in Live
             /\ Live' = {}]_vars

C35_Witness ==
    /\ lastEvent = "close"
    /\ ros = 2
    /\ transport[1] = "closed"
    /\ transport[2] = "closed"
    /\ Cardinality(PendingKind("reconnect")) = 1

\* C36: a probe timer that fires after the transport it was started on has
\* closed creates no subscription, leaves cameraSubscriber alone and leaves
\* the status as it is.
C36_ProbeOfClosedConnection ==
    [][(lastEvent' = "probeTimeout" /\ transport[Head(timers).ros] = "closed") =>
          /\ subs' = subs
          /\ cameraSubscriber' = cameraSubscriber
          /\ UNCHANGED <<connectionStatus, statusMessage>>]_vars

\* C37: the goal marker is visible exactly while a goal position is held, and
\* the navigation controls are shown only while one is held.
C37_MarkerIffGoal ==
    /\ goalMarkerVisible <=> goalPosition.held
    /\ navControlsShown => goalPosition.held

C37_Witness ==
    /\ lastEvent = "statusMessage"
    /\ Last(statusList) = 3
    /\ published.topic = GoalTopic
    /\ ~goalMarkerVisible
    /\ ~navControlsShown
    /\ goalPosition = NoGoal

\* ---- properties of the goal stamp and of the drone view ----------------------------
\* C38: the stamp of a published goal has 0 <= nsecs < 10^9 and denotes, in
\* milliseconds, a value the clock showed between entry to and return from
\* publishNavigationGoal.
C38_StampIsOneInstant ==
    (lastEvent = "sendGoal" /\ outcome = "ok") =>
        /\ 0 <= stamp.nsecs
        /\ stamp.nsecs < SecondMs * NsPerMs
        /\ stamp.secs * SecondMs + stamp.nsecs \div NsPerMs
              \in clockShown.from..clockShown.to

\* C39: the response to a fetch issued before a fetch whose response has been
\* applied changes neither the telemetry nor the drone pose, and a failed
\* fetch changes neither.
C39_NoOlderTelemetry ==
    [][/\ (lastEvent' = "telemetry" /\ late') => UNCHANGED <<telemetry, drone>>
       /\ lastEvent' = "fetchFailed" => UNCHANGED <<telemetry, drone>>]_vars

\* C40: the trajectory buffer never holds more than maxTrajectoryPoints
\* points; it changes only by appending the position of the drone when it is
\* empty or its last point is more than 0.1 away, and an append to a full
\* buffer drops the oldest point and keeps the others in order.
C40_TrajectoryCapped ==
    [][/\ Len(trajectoryPoints') <= maxTrajectoryPoints
       /\ trajectoryPoints' # trajectoryPoints =>
             /\ lastEvent' = "telemetry"
             /\ \/ trajectoryPoints = <<>>
                \/ Abs(drone'.position.y - Last(trajectoryPoints).y) > MoveThreshold
             /\ trajectoryPoints' =
                   IF Len(trajectoryPoints) = maxTrajectoryPoints
                   THEN Tail(trajectoryPoints) \o <<drone'.position>>
                   ELSE trajectoryPoints \o <<drone'.position>>]_vars

C40_Witness ==
    /\ lastEvent = "telemetry"
    /\ shifted
    /\ Len(trajectoryPoints) = maxTrajectoryPoints
    /\ trajectoryPoints[1].y = 0
    /\ trajectoryPoints[maxTrajectoryPoints].y = 4
    /\ drone.position.y = 4
====
